---- MODULE Spec2Model ----
(***************************************************************************)
(* A model of the table-reader-bank extraction pipeline                    *)
(* (src/utils/extraction.py, src/utils/ocr.py, src/utils/data_cleaning.py, *)
(* src/main.py).                                                           *)
(*                                                                         *)
(* Text is a sequence of one-character strings, so that upper(), lower(),  *)
(* strip() and the substring test `in` are computed, not assumed.          *)
(* An image is a record [w, h, ink, glyphs]: ink is the set of non-white   *)
(* pixels <<x, y, intensity>> (every other pixel is 255) and glyphs is the *)
(* set of printed texts <<x, y, text>> anchored at a pixel, which is what  *)
(* the OCR engine reads back from a crop that contains the anchor.         *)
(***************************************************************************)
EXTENDS Integers, Sequences, FiniteSets, TLC

VARIABLES
    pc,             \* where main / process_pdf is: "loop", "returned", "raised", "exit1", "exported"
    pi,             \* index of the page being processed (outer loop of process_pdf)
    nt,             \* number of tables handled so far
    tables_data,    \* process_pdf: sheet name -> list of raw rows
    last_category,  \* process_pdf: ExtractionState
    last_card_type, \* process_pdf: ExtractionState
    result,         \* process_pdf: sheet name -> DataFrame, the returned mapping
    na,             \* the value pandas put in the missing cells of ragged rows when the frames were built
    hist,           \* history: header classification of each table handled
    ev,             \* history: what the last loop iteration did
    fin, fout       \* input and output of the function under check (pure-function specifications)

vars == <<pc, pi, nt, tables_data, last_category, last_card_type, result, na, hist, ev, fin, fout>>

(***************************************************************************)
(* Bounds of the model                                                     *)
(***************************************************************************)
MaxTables == 3
MaxPages == 2
MaxRows == 2

(***************************************************************************)
(* Python values                                                           *)
(***************************************************************************)
None == "None"
NoCell == <<>>                      \* a merged-away cell: None in row.cells
NoImage == [none |-> TRUE]          \* crop_cell_image's None
NoneText == <<"<None>">>            \* None where a string is expected
NaNText == <<"<NaN>">>              \* float('nan') where a string is expected

Max(a, b) == IF a >= b THEN a ELSE b
Min(a, b) == IF a <= b THEN a ELSE b

\* int(a / b) for b > 0: Python's int() truncates toward zero
TruncDiv(a, b) == IF a >= 0 THEN a \div b ELSE -((-a) \div b)

(***************************************************************************)
(* str methods                                                             *)
(***************************************************************************)
LowerLetters == <<"a","b","c","d","e","f","g","h","i","j","k","l","m","n","o","p","q","r","s","t","u","v","w","x","y","z","á","é","í","ó","ú","ñ">>
UpperLetters == <<"A","B","C","D","E","F","G","H","I","J","K","L","M","N","O","P","Q","R","S","T","U","V","W","X","Y","Z","Á","É","Í","Ó","Ú","Ñ">>

IndexOf(c, letters) == IF \E i \in 1..Len(letters) : letters[i] = c
                       THEN CHOOSE i \in 1..Len(letters) : letters[i] = c
                       ELSE 0

UpperChar(c) == IF IndexOf(c, LowerLetters) > 0 THEN UpperLetters[IndexOf(c, LowerLetters)] ELSE c
LowerChar(c) == IF IndexOf(c, UpperLetters) > 0 THEN LowerLetters[IndexOf(c, UpperLetters)] ELSE c

\* s.upper(), s.lower()
Upper(s) == [i \in 1..Len(s) |-> UpperChar(s[i])]
Lower(s) == [i \in 1..Len(s) |-> LowerChar(s[i])]

\* p in s
Contains(s, p) == \E i \in 0..(Len(s) - Len(p)) : SubSeq(s, i + 1, i + Len(p)) = p

Whitespace == {" ", "\n", "\t"}

RECURSIVE LStrip(_)
LStrip(s) == IF s # <<>> /\ Head(s) \in Whitespace THEN LStrip(Tail(s)) ELSE s
RECURSIVE RStrip(_)
RStrip(s) == IF s # <<>> /\ s[Len(s)] \in Whitespace THEN RStrip(SubSeq(s, 1, Len(s) - 1)) ELSE s
\* s.strip()
Strip(s) == RStrip(LStrip(s))

\* " ".join(row)
RECURSIVE JoinSpace(_)
JoinSpace(row) == IF row = <<>> THEN <<>>
                  ELSE IF Len(row) = 1 THEN row[1]
                  ELSE row[1] \o <<" ">> \o JoinSpace(Tail(row))

\* Python truthiness of a str-or-None value: `if not raw`
Falsy(raw) == raw = <<>> \/ raw = NoneText

(***************************************************************************)
(* src/utils/ocr.py                                                        *)
(***************************************************************************)
\* int(v * SCALE), SCALE = 300 / 72.0
ScalePx(v) == TruncDiv(v * 300, 72)

\* PIL Image.crop((x0, top, x1, bottom)) of a region inside the image
Crop(img, x0, top, x1, bottom) ==
    [w      |-> x1 - x0,
     h      |-> bottom - top,
     ink    |-> {<<t[1] - x0, t[2] - top, t[3]>> :
                    t \in {u \in img.ink : x0 <= u[1] /\ u[1] < x1 /\ top <= u[2] /\ u[2] < bottom}},
     glyphs |-> {<<t[1] - x0, t[2] - top, t[3]>> :
                    t \in {u \in img.glyphs : x0 <= u[1] /\ u[1] < x1 /\ top <= u[2] /\ u[2] < bottom}}]

\* CropBox without the clamp to the page's width and height
CropBoxUnclamped(page_img, bbox, pad) ==
    [x0     |-> Max(0, ScalePx(bbox[1]) - pad),
     top    |-> Max(0, ScalePx(bbox[2]) - pad),
     x1     |-> ScalePx(bbox[3]) + pad,
     bottom |-> ScalePx(bbox[4]) + pad]

\* The clamped pixel region crop_cell_image computes
CropBox(page_img, bbox, pad) ==
    [x0     |-> Max(0, ScalePx(bbox[1]) - pad),
     top    |-> Max(0, ScalePx(bbox[2]) - pad),
     x1     |-> Min(page_img.w, ScalePx(bbox[3]) + pad),
     bottom |-> Min(page_img.h, ScalePx(bbox[4]) + pad)]

CropCellImage(page_img, bbox, pad) ==
    LET b == CropBox(page_img, bbox, pad) IN
    IF b.x1 <= b.x0 \/ b.bottom <= b.top
    THEN NoImage
    ELSE Crop(page_img, b.x0, b.top, b.x1, b.bottom)

\* Upscaling multiplies every coordinate; grayscale and sharpening keep the layout
PrepareForOcr(img, min_height) ==
    IF img.h < min_height
    THEN LET factor == Max(2, (min_height + img.h - 1) \div img.h) IN
         [w      |-> img.w * factor,
          h      |-> img.h * factor,
          ink    |-> {<<t[1] * factor, t[2] * factor, t[3]>> : t \in img.ink},
          glyphs |-> {<<t[1] * factor, t[2] * factor, t[3]>> : t \in img.glyphs}]
    ELSE img

\* pytesseract.image_to_string: the printed texts of the image in reading order,
\* on one line (psm 7) or one line each (psm 6), ended by a newline
RECURSIVE ReadGlyphs(_, _)
ReadGlyphs(g, sep) ==
    IF g = {} THEN <<>>
    ELSE LET first == CHOOSE t \in g :
                        \A u \in g : t[2] < u[2] \/ (t[2] = u[2] /\ t[1] <= u[1])
             rest  == g \ {first}
         IN  first[3] \o (IF rest = {} THEN <<"\n">> ELSE sep) \o ReadGlyphs(rest, sep)

ImageToString(img, psm) == ReadGlyphs(img.glyphs, IF psm = 7 THEN <<" ">> ELSE <<"\n">>)

ocr_cell(page_img, bbox) ==
    LET cell_img == CropCellImage(page_img, bbox, 5) IN
    IF cell_img = NoImage THEN <<>>
    ELSE Strip(ImageToString(PrepareForOcr(cell_img, 50), 7))

ocr_region(page_img, bbox) ==
    LET cell_img == CropCellImage(page_img, bbox, 4) IN
    IF cell_img = NoImage THEN <<>>
    ELSE Strip(ImageToString(PrepareForOcr(cell_img, 60), 6))

\* pixels <= 100
DarkPixelsInclusive(img) == {t \in img.ink : t[3] <= 100}

\* pixels < 100
DarkPixels(img) == {t \in img.ink : t[3] < 100}

\* vertical_coverage < 0.40, with vertical_coverage = dark_row_count / ih
CoverageBelow(dark_row_count, ih) == dark_row_count * 100 < 40 * ih

\* detect_sign_cell from the crop on
SignOfCrop(cell_img) ==
    IF cell_img = NoImage THEN <<"+">>
    ELSE IF cell_img.w < 6 \/ cell_img.h < 6 THEN <<"+">>
    ELSE LET margin_x == TruncDiv(cell_img.w * 20, 100)
             margin_y == TruncDiv(cell_img.h * 20, 100)
             inner    == Crop(cell_img, margin_x, margin_y,
                              cell_img.w - margin_x, cell_img.h - margin_y)
             dark     == DarkPixels(inner)
             dark_row_count == Cardinality({t[2] : t \in dark})
         IN  IF inner.w < 3 \/ inner.h < 3 THEN <<"+">>
             ELSE IF Cardinality(dark) < 2 THEN <<"+">>
             ELSE IF CoverageBelow(dark_row_count, inner.h) THEN <<"-">>
             ELSE <<"+">>

detect_sign_cell(page_img, bbox) == SignOfCrop(CropCellImage(page_img, bbox, 0))

(***************************************************************************)
(* src/utils/data_cleaning.py                                              *)
(***************************************************************************)
KwMesesSinIntereses == <<"M","E","S","E","S"," ","S","I","N"," ","I","N","T","E","R","E","S","E","S">>
KwDiferidos == <<"D","I","F","E","R","I","D","O","S">>
KwNoAMeses == <<"N","O"," ","A"," ","M","E","S","E","S">>
KwRegulares == <<"R","E","G","U","L","A","R","E","S">>
KwAdicional == <<"A","D","I","C","I","O","N","A","L">>

\* classify_table with the regular markers tested before the msi ones
classify_regular_first(header_text) ==
    LET upper == Upper(header_text) IN
    [category  |-> IF Contains(upper, KwNoAMeses) \/ Contains(upper, KwRegulares)
                   THEN "regular"
                   ELSE IF Contains(upper, KwMesesSinIntereses) \/ Contains(upper, KwDiferidos)
                   THEN "msi"
                   ELSE "unknown",
     card_type |-> IF Contains(upper, KwAdicional) THEN "adicional" ELSE "titular"]

classify_table(header_text) ==
    LET upper == Upper(header_text) IN
    [category  |-> IF Contains(upper, KwMesesSinIntereses) \/ Contains(upper, KwDiferidos)
                   THEN "msi"
                   ELSE IF Contains(upper, KwNoAMeses) \/ Contains(upper, KwRegulares)
                   THEN "regular"
                   ELSE "unknown",
     card_type |-> IF Contains(upper, KwAdicional) THEN "adicional" ELSE "titular"]

header_keywords == <<
    <<"f","e","c","h","a">>,
    <<"d","e","s","c","r","i","p","c","i","ó","n">>,
    <<"m","o","n","t","o">>,
    <<"s","a","l","d","o">>,
    <<"p","a","g","o">>,
    <<"m","o","v","i","m","i","e","n","t","o">>,
    <<"t","a","s","a">>,
    <<"i","n","t","e","r","é","s">>,
    <<"c","a","r","g","o">> >>

total_keywords == <<
    <<"t","o","t","a","l"," ","c","a","r","g","o","s">>,
    <<"t","o","t","a","l"," ","a","b","o","n","o","s">>,
    <<"t","o","t","a","l">> >>

\* " ".join(str(x).lower() for x in row_data)
RowText(row_data) == JoinSpace([i \in 1..Len(row_data) |-> Lower(row_data[i])])

is_header_row(row_data) ==
    LET text == RowText(row_data) IN
    Cardinality({k \in 1..Len(header_keywords) : Contains(text, header_keywords[k])}) >= 2

is_total_row(row_data) ==
    LET text == RowText(row_data) IN
    \E k \in 1..Len(total_keywords) : Contains(text, total_keywords[k])

Digits == {"0","1","2","3","4","5","6","7","8","9"}

IsDigit(s, i) == i >= 1 /\ i <= Len(s) /\ s[i] \in Digits
IsChar(s, i, c) == i >= 1 /\ i <= Len(s) /\ s[i] = c

\* s.replace(c, "") for every c of chars
Remove(s, chars) == SelectSeq(s, LAMBDA c : c \notin chars)

\* The index of the last digit of the run of digits that starts at i (i - 1 if none)
RECURSIVE DigitsEnd(_, _)
DigitsEnd(s, i) == IF IsDigit(s, i) THEN DigitsEnd(s, i + 1) ELSE i - 1

\* The least i of S (S non-empty)
Least(S) == CHOOSE i \in S : \A j \in S : i <= j

\* The end of the match of r"\d+\.?\d*" whose digits start at d
NumberEnd(s, d) == DigitsEnd(s, DigitsEnd(s, d) + (IF IsChar(s, DigitsEnd(s, d) + 1, ".") THEN 2 ELSE 1))

\* re.search(r"-?[\d]+\.?\d*", cleaned): the match, or cleaned when there is none
AmountMatch(cleaned, starts) ==
    IF starts = {} THEN cleaned
    ELSE SubSeq(cleaned, Least(starts),
                NumberEnd(cleaned, IF cleaned[Least(starts)] = "-" THEN Least(starts) + 1 ELSE Least(starts)))

AmountStarts(cleaned) ==
    {i \in 1..Len(cleaned) : IsDigit(cleaned, i) \/ (cleaned[i] = "-" /\ IsDigit(cleaned, i + 1))}

\* .replace("O", "0").replace("o", "0")
ZeroForO(s) == [i \in 1..Len(s) |-> IF s[i] \in {"O", "o"} THEN "0" ELSE s[i]]

AmountOf(cleaned) == AmountMatch(cleaned, AmountStarts(cleaned))

clean_amount(raw) ==
    IF Falsy(raw) THEN <<>>
    ELSE AmountOf(ZeroForO(Strip(Remove(raw, {"$", ",", " "}))))

\* re.search(r"[\d]+\.?\d*%?", cleaned): the match, or cleaned when there is none
PercentMatch(cleaned, starts) ==
    IF starts = {} THEN cleaned
    ELSE SubSeq(cleaned, Least(starts),
                NumberEnd(cleaned, Least(starts))
                + (IF IsChar(cleaned, NumberEnd(cleaned, Least(starts)) + 1, "%") THEN 1 ELSE 0))

PercentOf(cleaned) == PercentMatch(cleaned, {i \in 1..Len(cleaned) : IsDigit(cleaned, i)})

clean_percentage(raw) ==
    IF Falsy(raw) THEN <<>>
    ELSE PercentOf(Strip(Remove(raw, {" "})))

\* " ".join(s.split())
\* The index of the first whitespace of t from i on (Len(t) + 1 if none)
RECURSIVE WordEnd(_, _)
WordEnd(t, i) == IF i > Len(t) \/ t[i] \in Whitespace THEN i ELSE WordEnd(t, i + 1)

SpaceBefore(rest) == IF rest = <<>> THEN <<>> ELSE <<" ">> \o rest

RECURSIVE CollapseSpaces(_)
RECURSIVE CollapseStripped(_, _)
CollapseStripped(t, n) == SubSeq(t, 1, n - 1) \o SpaceBefore(CollapseSpaces(SubSeq(t, n, Len(t))))
CollapseSpaces(s) ==
    IF LStrip(s) = <<>> THEN <<>>
    ELSE CollapseStripped(LStrip(s), WordEnd(LStrip(s), 1))

_sanitize_ocr(raw) ==
    Strip(CollapseSpaces([i \in 1..Len(raw) |->
                            IF raw[i] \in {"[", "]", "|", "\\"} THEN " " ELSE raw[i]]))

\* _MONTHS, matched with re.IGNORECASE
Months == { <<"e","n","e">>, <<"f","e","b">>, <<"m","a","r">>, <<"a","b","r">>,
            <<"m","a","y">>, <<"j","u","n">>, <<"j","u","l">>, <<"a","g","o">>,
            <<"s","e","p">>, <<"o","c","t">>, <<"n","o","v">>, <<"d","i","c">> }

MonthAt(s, i) == i >= 1 /\ i + 2 <= Len(s) /\ Lower(SubSeq(s, i, i + 2)) \in Months

\* \w
IsWordChar(c) ==
    \/ c \in Digits
    \/ c = "_"
    \/ IndexOf(c, LowerLetters) > 0
    \/ IndexOf(c, UpperLetters) > 0

\* \b just before the word character at i
BoundaryBefore(s, i) == i = 1 \/ ~IsWordChar(s[i - 1])

\* re.sub(r"\b(\d)X(-MONTHS)", r"\g<1>7\2", s, flags=re.IGNORECASE), X one of bad, from i on
RECURSIVE FixDayGlyph(_, _, _)
FixDayGlyph(s, i, bad) ==
    IF i > Len(s) THEN <<>>
    ELSE IF /\ IsDigit(s, i) /\ BoundaryBefore(s, i)
            /\ i + 1 <= Len(s) /\ s[i + 1] \in bad
            /\ IsChar(s, i + 2, "-") /\ MonthAt(s, i + 3)
    THEN <<s[i], "7">> \o SubSeq(s, i + 2, i + 5) \o FixDayGlyph(s, i + 6, bad)
    ELSE <<s[i]>> \o FixDayGlyph(s, i + 1, bad)

\* re.sub(r"\b(\d{2})\d(-MONTHS)", r"\1\2", s, flags=re.IGNORECASE), from i on
RECURSIVE DropThirdDigit(_, _)
DropThirdDigit(s, i) ==
    IF i > Len(s) THEN <<>>
    ELSE IF /\ IsDigit(s, i) /\ BoundaryBefore(s, i)
            /\ IsDigit(s, i + 1) /\ IsDigit(s, i + 2)
            /\ IsChar(s, i + 3, "-") /\ MonthAt(s, i + 4)
    THEN <<s[i], s[i + 1]>> \o SubSeq(s, i + 3, i + 6) \o DropThirdDigit(s, i + 7)
    ELSE <<s[i]>> \o DropThirdDigit(s, i + 1)

\* s.capitalize()
Capitalize(s) == [i \in 1..Len(s) |-> IF i = 1 THEN UpperChar(s[i]) ELSE LowerChar(s[i])]

\* Where r"(\d{1,2})-(MONTHS)" matches at i: the number of day digits, 0 if no match
DayMonthAt(s, i) ==
    IF IsDigit(s, i) /\ IsDigit(s, i + 1) /\ IsChar(s, i + 2, "-") /\ MonthAt(s, i + 3) THEN 2
    ELSE IF IsDigit(s, i) /\ IsChar(s, i + 1, "-") /\ MonthAt(s, i + 2) THEN 1
    ELSE 0

\* Where r"(\d{1,2})-(MONTHS)-(\d{4})" matches at i: the number of day digits, 0 if no match
YearAt(s, y) ==
    IsChar(s, y - 1, "-") /\ IsDigit(s, y) /\ IsDigit(s, y + 1) /\ IsDigit(s, y + 2) /\ IsDigit(s, y + 3)

FullDateFrom(s, i, n) == IF n > 0 /\ YearAt(s, i + n + 5) THEN n ELSE 0

FullDateAt(s, i) == FullDateFrom(s, i, DayMonthAt(s, i))

ZeroPad(day) == IF Len(day) = 1 THEN <<"0">> \o day ELSE day

\* The date of the match of n day digits at i: f"{day}-{month}-{year}"
FullDate(cleaned, i, n) ==
    ZeroPad(SubSeq(cleaned, i, i + n - 1))
    \o <<"-">> \o Capitalize(SubSeq(cleaned, i + n + 1, i + n + 3))
    \o <<"-">> \o SubSeq(cleaned, i + n + 5, i + n + 8)

\* The fallback: f"{match.group(1)}-{match.group(2).capitalize()}"
ShortDate(cleaned, i, n) ==
    SubSeq(cleaned, i, i + n - 1) \o <<"-">> \o Capitalize(SubSeq(cleaned, i + n + 1, i + n + 3))

\* Lines 71-93 of clean_date, full and short the places where the two patterns match
DateMatch(cleaned, full, short) ==
    IF full # {} THEN FullDate(cleaned, Least(full), FullDateAt(cleaned, Least(full)))
    ELSE IF short # {} THEN ShortDate(cleaned, Least(short), DayMonthAt(cleaned, Least(short)))
    ELSE cleaned

DateOf(cleaned) ==
    DateMatch(cleaned,
              {i \in 1..Len(cleaned) : FullDateAt(cleaned, i) > 0},
              {i \in 1..Len(cleaned) : DayMonthAt(cleaned, i) > 0})

clean_date(raw) ==
    IF Falsy(raw) THEN <<>>
    ELSE DateOf(DropThirdDigit(FixDayGlyph(FixDayGlyph(_sanitize_ocr(raw), 1, {"f", "F"}), 1, {"/"}), 1))

(***************************************************************************)
(* pandas.  A DataFrame is [columns, index, data]: data is the list of its  *)
(* rows, each a list of values in column order.                            *)
(***************************************************************************)
RECURSIVE MaxLen(_)
MaxLen(rows) == IF rows = <<>> THEN 0 ELSE Max(Len(rows[1]), MaxLen(Tail(rows)))

\* pd.DataFrame(rows, columns=cols) of a non-empty list of lists: rows shorter than
\* the longest one are filled with the missing value; it raises ValueError when the
\* longest row and cols differ in length
DataFrameRaises(rows, cols) == MaxLen(rows) # Len(cols)

DataFrame(rows, cols, missing) ==
    [columns |-> cols,
     index   |-> [i \in 1..Len(rows) |-> i - 1],
     data    |-> [r \in 1..Len(rows) |->
                    [c \in 1..Len(cols) |-> IF c <= Len(rows[r]) THEN rows[r][c] ELSE missing]]]

\* pd.concat(dfs, ignore_index=...) of one or two frames with the same columns
RECURSIVE ConcatData(_)
ConcatData(dfs) == IF dfs = <<>> THEN <<>> ELSE dfs[1].data \o ConcatData(Tail(dfs))
RECURSIVE ConcatIndex(_)
ConcatIndex(dfs) == IF dfs = <<>> THEN <<>> ELSE dfs[1].index \o ConcatIndex(Tail(dfs))

Concat(dfs, ignore_index) ==
    [columns |-> dfs[1].columns,
     index   |-> IF ignore_index THEN [i \in 1..Len(ConcatData(dfs)) |-> i - 1] ELSE ConcatIndex(dfs),
     data    |-> ConcatData(dfs)]

\* df.empty
Empty(df) == df.data = <<>>

\* A str method or re function called on float('nan'), or re.sub on None: the
\* cleaning functions guard with `if not raw`, which None passes and nan does not
GuardedRaises(raw) == raw = NaNText
UnguardedRaises(raw) == raw \in {NaNText, NoneText}

MSI_COLUMNS == << "Fecha de la operación", "Descripción", "Monto original", "Saldo pendiente",
                  "Pago requerido", "Núm. de pago", "Tasa de interés aplicable" >>

REGULAR_RAW_COLUMNS == << "Fecha de la operación", "Fecha de cargo", "Descripción del movimiento",
                          "Tipo", "Monto" >>

final_cols == << "Fecha Transacción", "Fecha Cargo", "Descripción", "Monto", "Tipo",
                 "Tipo Tarjeta", "De quien", "Comentario" >>

clean_msi_dataframe_raises(df) ==
    \E r \in 1..Len(df.data) : \E c \in {1, 3, 4, 5, 7} : GuardedRaises(df.data[r][c])

clean_msi_dataframe(df) ==
    [df EXCEPT !.data = [r \in 1..Len(df.data) |->
        << clean_date(df.data[r][1]),
           df.data[r][2],
           clean_amount(df.data[r][3]),
           clean_amount(df.data[r][4]),
           clean_amount(df.data[r][5]),
           df.data[r][6],
           clean_percentage(df.data[r][7]) >>]]

\* x.lstrip("-")
RECURSIVE LStripMinus(_)
LStripMinus(s) == IF s # <<>> /\ Head(s) = "-" THEN LStripMinus(Tail(s)) ELSE s

\* The two lambdas applied to the "Tipo" column
TipoLabel(t) == IF t = <<"-">> THEN <<"A","b","o","n","o">> ELSE <<"C","a","r","g","o">>

Tipo(x) == TipoLabel(IF Falsy(x) THEN <<"+">> ELSE Strip(x))

\* The Monto lambda without lstrip("-")
KeepSign(a) == a

\* clean_amount, then the lambda that strips the minus signs
StripSign(a) == IF Falsy(a) THEN a ELSE LStripMinus(a)

Monto(x) == StripSign(clean_amount(x))

CardTypeText(card_type) ==
    IF card_type = "adicional" THEN <<"a","d","i","c","i","o","n","a","l">>
    ELSE <<"t","i","t","u","l","a","r">>

clean_regular_dataframe_raises(df) ==
    \E r \in 1..Len(df.data) :
        \/ \E c \in {1, 2, 4, 5} : GuardedRaises(df.data[r][c])
        \/ UnguardedRaises(df.data[r][3])

clean_regular_dataframe(df, card_type) ==
    [columns |-> final_cols,
     index   |-> df.index,
     data    |-> [r \in 1..Len(df.data) |->
        << clean_date(df.data[r][1]),
           clean_date(df.data[r][2]),
           _sanitize_ocr(df.data[r][3]),
           Monto(df.data[r][5]),
           Tipo(df.data[r][4]),
           Capitalize(CardTypeText(card_type)),
           <<>>,
           <<>> >>]]

(***************************************************************************)
(* The documents of the model: one page bitmap, and tables made of the     *)
(* rows printed on it.  A printed row lists its cells left to right: the   *)
(* cell's horizontal extent in points, the text printed in it, and the     *)
(* sign glyph drawn in it ("minus", "plus") if any; "merged" is a          *)
(* merged-away cell (None in row.cells).                                   *)
(***************************************************************************)
TxMsi      == <<"M","E","S","E","S"," ","S","I","N"," ","I","N","T","E","R","E","S","E","S">>
TxMsiAd    == <<"M","e","s","e","s"," ","s","i","n"," ","i","n","t","e","r","e","s","e","s"," ","A","d","i","c","i","o","n","a","l">>
TxReg      == <<"N","O"," ","A"," ","M","E","S","E","S">>
TxRegAd    == <<"C","o","m","p","r","a","s"," ","r","e","g","u","l","a","r","e","s"," ","a","d","i","c","i","o","n","a","l">>
TxDetalle  == <<"D","E","T","A","L","L","E">>
TxDate1    == <<"1","7","-","E","n","e","-","2","0","2","6">>
TxDate2    == <<"1","8","-","E","n","e","-","2","0","2","6">>
TxOxxo     == <<"O","X","X","O">>
TxAmount   == <<"$","1",",","5","0","0",".","0","0">>
TxAmount2  == <<"$","2","5","0",".","0","0">>
TxPago     == <<"3"," ","d","e"," ","1","2">>
TxTasa     == <<"0","%">>
TxTotal    == <<"T","o","t","a","l"," ","c","a","r","g","o","s">>
TxFecha    == <<"F","e","c","h","a">>
TxDescr    == <<"D","e","s","c","r","i","p","c","i","ó","n">>
TxMonto    == <<"M","o","n","t","o">>
TxNoA      == <<"N","O"," ","A">>
TxMeses    == <<"M","E","S","E","S">>
TxDifer    == <<"D","i","f","e","r","i","d","o","s">>
TxOne      == <<"1">>

P(x0, x1, text) == [x0 |-> x0, x1 |-> x1, text |-> text, ink |-> "none"]
G(x0, x1, ink)  == [x0 |-> x0, x1 |-> x1, text |-> <<"-">>, ink |-> ink]
Merged          == [x0 |-> 0, x1 |-> 0, text |-> <<>>, ink |-> "merged"]

Printed == <<
    \* 1..5: merged title rows
    << P(36, 500, TxMsi), Merged, Merged >>,
    << P(36, 500, TxMsiAd), Merged, Merged >>,
    << P(36, 500, TxReg), Merged, Merged >>,
    << P(36, 500, TxRegAd), Merged, Merged >>,
    << P(36, 500, TxDetalle), Merged, Merged >>,
    \* 6: five cells, the fourth the narrow sign column, a minus drawn in it
    << P(36, 96, TxDate1), P(96, 156, TxDate2), P(156, 400, TxOxxo), G(400, 412, "minus"), P(412, 500, TxAmount) >>,
    \* 7: four fields, three of them printed
    << P(36, 96, TxDate2), Merged, P(156, 400, TxOxxo), P(412, 500, TxAmount2) >>,
    \* 8: nine cells
    << P(36, 96, TxDate1), P(96, 250, TxOxxo), P(250, 300, TxAmount), P(300, 350, TxAmount2), P(350, 400, TxAmount2),
       P(400, 440, TxPago), P(440, 470, TxTasa), P(470, 485, TxOne), P(485, 500, TxOne) >>,
    \* 9: a total row
    << P(36, 156, TxTotal), P(156, 400, <<>>), P(412, 500, TxAmount) >>,
    \* 10: a column-header row
    << P(36, 96, TxFecha), P(96, 156, TxFecha), P(156, 400, TxDescr), P(400, 412, <<>>), P(412, 500, TxMonto) >>,
    \* 11: two printed cells
    << P(36, 156, TxOxxo), P(156, 400, TxAmount), Merged >>,
    \* 12: three cells with nothing printed in them
    << P(36, 96, <<>>), P(96, 156, <<>>), P(156, 400, <<>>) >>,
    \* 13, 14: a title split over two merged rows
    << P(36, 500, TxNoA), Merged, Merged >>,
    << P(36, 500, TxMeses), Merged, Merged >>,
    \* 15: a fully merged row
    << Merged, Merged, Merged >>,
    \* 16: five cells, a plus drawn in the sign column
    << P(36, 96, TxDate2), P(96, 156, TxDate2), P(156, 400, TxDifer), G(400, 412, "plus"), P(412, 500, TxAmount2) >>
  >>

\* Row k of the page lies between RowTop(k) and RowTop(k) + 24 points
RowTop(k) == 72 + 24 * k

BBox(k, c) == << c.x0, RowTop(k), c.x1, RowTop(k) + 24 >>

\* The pixel at the centre of a printed cell
CentreX(c) == ScalePx((c.x0 + c.x1) \div 2)
CentreY(k) == ScalePx(RowTop(k) + 12)

GlyphsOfRow(k) ==
    {<<CentreX(Printed[k][i]), CentreY(k), Printed[k][i].text>> :
        i \in {j \in 1..Len(Printed[k]) : Printed[k][j].ink # "merged" /\ Printed[k][j].text # <<>>}}

InkOfCell(k, c) ==
    IF c.ink = "minus" THEN {<<CentreX(c) + d, CentreY(k), 0>> : d \in -6..6}
    ELSE IF c.ink = "plus"
    THEN {<<CentreX(c) + d, CentreY(k), 0>> : d \in -6..6}
         \cup {<<CentreX(c), CentreY(k) + d, 0>> : d \in -20..20}
    ELSE {}

InkOfRow(k) == UNION {InkOfCell(k, Printed[k][i]) : i \in 1..Len(Printed[k])}

\* A US-letter page rendered at RENDER_DPI = 300
PageImg ==
    [w      |-> 2550,
     h      |-> 3300,
     ink    |-> UNION {InkOfRow(k) : k \in 1..Len(Printed)},
     glyphs |-> UNION {GlyphsOfRow(k) : k \in 1..Len(Printed)}]

\* row.cells of printed row k
Cells(k) == [i \in 1..Len(Printed[k]) |-> IF Printed[k][i].ink = "merged" THEN NoCell ELSE BBox(k, Printed[k][i])]

\* table.rows of the table made of printed rows ks
TableOf(ks) == [i \in 1..Len(ks) |-> Cells(ks[i])]

\* All sequences over S of length at most n
SeqsUpTo(S, n) == UNION {[1..m -> S] : m \in 0..n}

(***************************************************************************)
(* src/utils/extraction.py                                                 *)
(***************************************************************************)
\* [c for c in cells if c is not None]
NonNone(cells) == SelectSeq(cells, LAMBDA c : c # NoCell)

\* cell[2] - cell[0]
CellWidth(cell) == cell[3] - cell[1]

\* Which reader extract_table_data applies to a cell of a data row
CellEngine(cell, is_msi) ==
    IF cell = NoCell THEN "none"
    ELSE IF ~is_msi /\ CellWidth(cell) < 20 THEN "sign"
    ELSE "ocr"

\* Which reader extract_continuation_table applies to a cell
ContCellEngine(cell) ==
    IF cell = NoCell THEN "none"
    ELSE IF CellWidth(cell) < 20 THEN "sign"
    ELSE "ocr"

ReadCell(page_img, cell, engine) ==
    IF engine = "none" THEN <<>>
    ELSE IF engine = "sign" THEN detect_sign_cell(page_img, cell)
    ELSE ocr_cell(page_img, cell)

\* not any(row_data)
AllEmpty(row_data) == \A i \in 1..Len(row_data) : row_data[i] = <<>>

\* while len(row_data) < n: row_data.append(""); row_data = row_data[:n]
Normalize(row_data, n) == [i \in 1..n |-> IF i <= Len(row_data) THEN row_data[i] ELSE <<>>]

\* The header scan without the break: it goes on past rows with several cells
RECURSIVE HeaderScanAll(_, _, _, _)
HeaderScanAll(page_img, rows, ri, header_text) ==
    IF ri > Len(rows)
    THEN [header_text |-> header_text, data_start_idx |-> ri - 1]
    ELSE HeaderScanAll(page_img, rows, ri + 1,
                       IF Len(NonNone(rows[ri])) = 1
                       THEN header_text \o <<" ">> \o ocr_region(page_img, NonNone(rows[ri])[1])
                       ELSE header_text)

\* The header scan of extract_table_data, from row ri (1-based) on
RECURSIVE HeaderScan(_, _, _, _)
HeaderScan(page_img, rows, ri, header_text) ==
    IF ri > Len(rows)
    THEN [header_text |-> header_text, data_start_idx |-> ri - 1]
    ELSE LET non_none == NonNone(rows[ri]) IN
         IF Len(non_none) <= 1
         THEN HeaderScan(page_img, rows, ri + 1,
                         IF non_none # <<>>
                         THEN header_text \o <<" ">> \o ocr_region(page_img, non_none[1])
                         ELSE header_text)
         ELSE [header_text |-> header_text, data_start_idx |-> ri - 1]

\* Lines 79-93: the cells of a data row, read
RowData(page_img, cells, is_msi) ==
    [ci \in 1..Len(cells) |-> ReadCell(page_img, cells[ci], CellEngine(cells[ci], is_msi))]

\* Lines 127-137: the cells of a row of a continuation table, read
ContRowData(page_img, cells) ==
    [ci \in 1..Len(cells) |-> ReadCell(page_img, cells[ci], ContCellEngine(cells[ci]))]

\* KeptRow without the total-row filter
KeptRowWithTotals(cells, row_data, expected_cols) ==
    IF Len(NonNone(cells)) < 3 THEN <<>>
    ELSE IF is_header_row(row_data) THEN <<>>
    ELSE IF AllEmpty(row_data) THEN <<>>
    ELSE << Normalize(row_data, expected_cols) >>

\* Lines 73-108 and 123-147: what one row adds to data_rows
KeptRow(cells, row_data, expected_cols) ==
    IF Len(NonNone(cells)) < 3 THEN <<>>
    ELSE IF is_header_row(row_data) \/ is_total_row(row_data) THEN <<>>
    ELSE IF AllEmpty(row_data) THEN <<>>
    ELSE << Normalize(row_data, expected_cols) >>

\* The data-row loop of extract_table_data over rows[data_start_idx:]
\* (ri is 1-based: the rows after the first ri - 1 of them)
RECURSIVE DataRows(_, _, _, _, _)
DataRows(page_img, rows, ri, is_msi, expected_cols) ==
    IF ri > Len(rows) THEN <<>>
    ELSE KeptRow(rows[ri], RowData(page_img, rows[ri], is_msi), expected_cols)
         \o DataRows(page_img, rows, ri + 1, is_msi, expected_cols)

\* Lines 60-110 of extract_table_data, after the header scan
ExtractClassified(page_img, table, cls, data_start_idx) ==
    IF cls.category = "unknown"
    THEN [category |-> "continuation", card_type |-> None, data_rows |-> <<>>]
    ELSE [category  |-> cls.category,
          card_type |-> cls.card_type,
          data_rows |-> DataRows(page_img, table, data_start_idx + 1, cls.category = "msi",
                                 IF cls.category = "msi" THEN 7 ELSE 5)]

ExtractScanned(page_img, table, scan) ==
    ExtractClassified(page_img, table, classify_table(scan.header_text), scan.data_start_idx)

extract_table_data(page_img, table) ==
    IF table = <<>>
    THEN [category |-> None, card_type |-> None, data_rows |-> <<>>]
    ELSE ExtractScanned(page_img, table, HeaderScan(page_img, table, 1, <<>>))

RECURSIVE ContRows(_, _, _)
ContRows(page_img, rows, ri) ==
    IF ri > Len(rows) THEN <<>>
    ELSE KeptRow(rows[ri], ContRowData(page_img, rows[ri]), 5)
         \o ContRows(page_img, rows, ri + 1)

extract_continuation_table(page_img, table) == ContRows(page_img, table, 1)

SheetNames == {"MSI Titular", "MSI Adicional", "No a Meses Titular", "No a Meses Adicional"}

\* Lines 213-219 of process_pdf: the sheet of a (category, card_type), None when skipped
SheetName(category, card_type) ==
    IF category = "msi"
    THEN (IF card_type = "adicional" THEN "MSI Adicional" ELSE "MSI Titular")
    ELSE IF category = "regular"
    THEN (IF card_type = "adicional" THEN "No a Meses Adicional" ELSE "No a Meses Titular")
    ELSE None

\* The readers one pass over the data rows invokes: <<reader, narrow>> for every
\* non-null cell of every row that reaches the cell loop
ReaderCalls(rows, first, is_msi, continuation) ==
    UNION {
        {<<IF continuation THEN ContCellEngine(rows[ri][ci]) ELSE CellEngine(rows[ri][ci], is_msi),
           CellWidth(rows[ri][ci]) < 20>> :
            ci \in {c \in 1..Len(rows[ri]) : rows[ri][c] # NoCell}} :
        ri \in {r \in first..Len(rows) : Len(NonNone(rows[r])) >= 3}}

\* What classify_table makes of the table's merged title rows
HeaderClass(page_img, table) ==
    IF table = <<>> THEN [category |-> None, card_type |-> None]
    ELSE classify_table(HeaderScan(page_img, table, 1, <<>>).header_text)

\* The readers the loop iteration invokes on the table's cells
IterationCalls(page_img, table, category) ==
    IF category = "continuation" THEN ReaderCalls(table, 1, FALSE, TRUE)
    ELSE IF category = None THEN {}
    ELSE ReaderCalls(table, HeaderScan(page_img, table, 1, <<>>).data_start_idx + 1,
                     category = "msi", FALSE)

\* The history of one loop iteration: the table's header class and the readers
\* invoked on it
Trace(page_img, table, x) ==
    [header |-> HeaderClass(page_img, table),
     calls  |-> IterationCalls(page_img, table, x.category)]

\* Store with the table's rows put before the rows the sheet already holds
StoreInFront(td, lc, lct, category, card_type, data_rows, sheet, trace, read_state) ==
    IF data_rows = <<>> \/ sheet = None
    THEN [tables_data |-> td, last_category |-> lc, last_card_type |-> lct,
          ev |-> [header |-> trace.header, outcome |-> IF data_rows = <<>> THEN "no data" ELSE "unknown",
                  category |-> category, sheet |-> None, rows |-> data_rows,
                  calls |-> trace.calls, read_state |-> read_state]]
    ELSE [tables_data    |-> [td EXCEPT ![sheet] = data_rows \o @],
          last_category  |-> category,
          last_card_type |-> card_type,
          ev |-> [header |-> trace.header, outcome |-> "stored",
                  category |-> category, sheet |-> sheet, rows |-> data_rows,
                  calls |-> trace.calls, read_state |-> read_state]]

\* Lines 208-223: the table is stored under its sheet, or skipped
Store(td, lc, lct, category, card_type, data_rows, sheet, trace, read_state) ==
    IF data_rows = <<>> \/ sheet = None
    THEN [tables_data |-> td, last_category |-> lc, last_card_type |-> lct,
          ev |-> [header |-> trace.header, outcome |-> IF data_rows = <<>> THEN "no data" ELSE "unknown",
                  category |-> category, sheet |-> None, rows |-> data_rows,
                  calls |-> trace.calls, read_state |-> read_state]]
    ELSE [tables_data    |-> [td EXCEPT ![sheet] = @ \o data_rows],
          last_category  |-> category,
          last_card_type |-> card_type,
          ev |-> [header |-> trace.header, outcome |-> "stored",
                  category |-> category, sheet |-> sheet, rows |-> data_rows,
                  calls |-> trace.calls, read_state |-> read_state]]

\* Lines 198-206: a continuation table inherits ExtractionState, or is skipped
Continuation(td, lc, lct, data_rows, trace) ==
    IF data_rows # <<>> /\ lc # None
    THEN Store(td, lc, lct, lc, lct, data_rows, SheetName(lc, lct), trace, TRUE)
    ELSE [tables_data |-> td, last_category |-> lc, last_card_type |-> lct,
          ev |-> [header |-> trace.header, outcome |-> "continuation, no context",
                  category |-> lc, sheet |-> None, rows |-> data_rows,
                  calls |-> trace.calls, read_state |-> data_rows # <<>>]]

\* Route with a classified table stored under the inherited class when there is one
RouteInherit(td, lc, lct, page_img, table, x, trace) ==
    IF x.category = "continuation"
    THEN Continuation(td, lc, lct, extract_continuation_table(page_img, table), trace)
    ELSE IF lc # None
    THEN Store(td, lc, lct, lc, lct, x.data_rows, SheetName(lc, lct), trace, TRUE)
    ELSE Store(td, lc, lct, x.category, x.card_type, x.data_rows,
               SheetName(x.category, x.card_type), trace, FALSE)

\* Lines 198-223, x the result of extract_table_data
Route(td, lc, lct, page_img, table, x, trace) ==
    IF x.category = "continuation"
    THEN Continuation(td, lc, lct, extract_continuation_table(page_img, table), trace)
    ELSE Store(td, lc, lct, x.category, x.card_type, x.data_rows,
               SheetName(x.category, x.card_type), trace, FALSE)

Traced(td, lc, lct, page_img, table, x) ==
    Route(td, lc, lct, page_img, table, x, Trace(page_img, table, x))

\* One iteration of the table loop of process_pdf (lines 189-225), from the state
\* (tables_data, last_category, last_card_type) it starts in
Iterate(td, lc, lct, page_img, table) ==
    Traced(td, lc, lct, page_img, table, extract_table_data(page_img, table))

(***************************************************************************)
(* The documents process_pdf is run on                                     *)
(***************************************************************************)
MainRows == {1, 2, 3, 4, 6, 7, 8}
Tables == {TableOf(ks) : ks \in SeqsUpTo(MainRows, MaxRows)}

\* tables_data.items(): the sheets in insertion order

\* "MSI" in sheet_name, "Adicional" in sheet_name
IsMsiSheet(sheet_name) == sheet_name \in {"MSI Titular", "MSI Adicional"}
IsAdicionalSheet(sheet_name) == sheet_name \in {"MSI Adicional", "No a Meses Adicional"}

\* Lines 229-244: whether building the frame of a non-empty sheet raises
SheetRaises(sheet_name, rows, missing) ==
    LET cols == IF IsMsiSheet(sheet_name) THEN MSI_COLUMNS ELSE REGULAR_RAW_COLUMNS IN
    \/ DataFrameRaises(rows, cols)
    \/ IF IsMsiSheet(sheet_name)
       THEN clean_msi_dataframe_raises(DataFrame(rows, cols, missing))
       ELSE clean_regular_dataframe_raises(DataFrame(rows, cols, missing))

\* Lines 229-244: the frame of a non-empty sheet
SheetFrame(sheet_name, rows, missing) ==
    IF IsMsiSheet(sheet_name)
    THEN clean_msi_dataframe(DataFrame(rows, MSI_COLUMNS, missing))
    ELSE clean_regular_dataframe(DataFrame(rows, REGULAR_RAW_COLUMNS, missing),
                                 IF IsAdicionalSheet(sheet_name) THEN "adicional" ELSE "titular")

\* Lines 248-252: the regular frames to concatenate
NoMesesDfs(res) ==
    (IF "No a Meses Titular" \in DOMAIN res /\ ~Empty(res["No a Meses Titular"])
     THEN << res["No a Meses Titular"] >> ELSE <<>>)
    \o
    (IF "No a Meses Adicional" \in DOMAIN res /\ ~Empty(res["No a Meses Adicional"])
     THEN << res["No a Meses Adicional"] >> ELSE <<>>)

\* Line 255 without ignore_index=True
ConsolidateKeepIndex(dfs) == Concat(dfs, FALSE)

\* Line 255
Consolidate(dfs) == Concat(dfs, TRUE)

\* Lines 254-256
WithConsolidado(base, dfs) ==
    IF dfs # <<>>
    THEN [s \in DOMAIN base \cup {"No a Meses Consolidado"} |->
            IF s = "No a Meses Consolidado" THEN Consolidate(dfs) ELSE base[s]]
    ELSE base

\* Lines 248-256
Consolidated(base) == WithConsolidado(base, NoMesesDfs(base))

\* Lines 228-259: the mapping process_pdf returns
BuildResult(td, missing) ==
    Consolidated([s \in {n \in SheetNames : td[n] # <<>>} |-> SheetFrame(s, td[s], missing)])

NoEvent == [header |-> [category |-> None, card_type |-> None], outcome |-> "none",
            category |-> None, sheet |-> None, rows |-> <<>>, calls |-> {}, read_state |-> FALSE]

(***************************************************************************)
(* main and process_pdf as a state machine                                 *)
(***************************************************************************)
Init ==
    /\ pc = "loop"
    /\ pi = 0
    /\ nt = 0
    /\ tables_data = [s \in SheetNames |-> <<>>]
    /\ last_category = None
    /\ last_card_type = "titular"
    /\ result = <<>>
    /\ na = <<>>
    /\ hist = <<>>
    /\ ev = NoEvent
    /\ fin = <<>>
    /\ fout = <<>>

\* for pi, page in enumerate(pdf.pages): the loop moves on to the next page
NextPage ==
    /\ pc = "loop"
    /\ pi < MaxPages
    /\ pi' = pi + 1
    /\ UNCHANGED <<pc, nt, tables_data, last_category, last_card_type, result, na, hist, ev, fin, fout>>

\* The state after a loop iteration
Iterated(r) ==
    /\ tables_data' = r.tables_data
    /\ last_category' = r.last_category
    /\ last_card_type' = r.last_card_type
    /\ ev' = r.ev
    /\ hist' = Append(hist, r.ev.header)

\* for ti, table in enumerate(found_tables): the loop body on the next table of the page
HandleTable ==
    /\ pc = "loop"
    /\ pi >= 1
    /\ nt < MaxTables
    /\ \E table \in Tables :
        Iterated(Iterate(tables_data, last_category, last_card_type, PageImg, table))
    /\ nt' = nt + 1
    /\ UNCHANGED <<pc, pi, result, na, fin, fout>>

\* The frames of the sheets, built with pandas filling ragged rows with `missing`
Built(missing) ==
    /\ na' = missing
    /\ IF \E s \in SheetNames : tables_data[s] # <<>> /\ SheetRaises(s, tables_data[s], missing)
       THEN pc' = "raised" /\ result' = result
       ELSE pc' = "returned" /\ result' = BuildResult(tables_data, missing)

\* The loops are over: process_pdf builds the frames and returns them, or raises.
\* The installed pandas fills the short rows of a ragged list with None (object
\* columns) or with nan (str columns).
Return ==
    /\ pc = "loop"
    /\ \E missing \in {NoneText, NaNText} : Built(missing)
    /\ UNCHANGED <<pi, nt, tables_data, last_category, last_card_type, hist, ev, fin, fout>>

\* main, lines 45-47: if not dataframes: sys.exit(1)
MainExit ==
    /\ pc = "returned"
    /\ DOMAIN result = {}
    /\ pc' = "exit1"
    /\ UNCHANGED <<pi, nt, tables_data, last_category, last_card_type, result, na, hist, ev, fin, fout>>

\* main, lines 49-58: the frames go to the exporters
MainExport ==
    /\ pc = "returned"
    /\ DOMAIN result # {}
    /\ pc' = "exported"
    /\ UNCHANGED <<pi, nt, tables_data, last_category, last_card_type, result, na, hist, ev, fin, fout>>

Next == NextPage \/ HandleTable \/ Return \/ MainExit \/ MainExport

Spec == Init /\ [][Next]_vars

(***************************************************************************)
(* The functions on their own: fin is the argument, fout the value         *)
(***************************************************************************)
Idle ==
    /\ pi = 0 /\ nt = 0
    /\ tables_data = [s \in SheetNames |-> <<>>]
    /\ last_category = None /\ last_card_type = "titular"
    /\ result = <<>> /\ na = <<>> /\ hist = <<>> /\ ev = NoEvent

Returns(to, value) ==
    /\ pc' = to
    /\ fout' = value
    /\ UNCHANGED <<pi, nt, tables_data, last_category, last_card_type, result, na, hist, ev, fin>>

\* --- one loop iteration of process_pdf from two ExtractionStates -------------
\* The values (last_category, last_card_type) takes in process_pdf
States ==
    {[lc |-> None, lct |-> "titular"]}
    \cup {[lc |-> c, lct |-> t] : c \in {"msi", "regular"}, t \in {"titular", "adicional"}}

RouteInit ==
    /\ pc = "route"
    /\ fin \in [table : Tables, a : States, b : States]
    /\ fout = <<>>
    /\ Idle

RouteBoth ==
    /\ pc = "route"
    /\ Returns("routed",
          << Iterate(tables_data, fin.a.lc, fin.a.lct, PageImg, fin.table),
             Iterate(tables_data, fin.b.lc, fin.b.lct, PageImg, fin.table) >>)

SpecRoute == RouteInit /\ [][RouteBoth]_vars

\* --- extract_table_data -----------------------------------------------------
MaxRowsX == 4
ExtractRows == {1, 3, 5, 6, 7, 8, 9, 10, 11, 12}

\* The rows process_pdf stores for a document holding the one table
StoredOf(table) == Iterate([s \in SheetNames |-> <<>>], None, "titular", PageImg, table).tables_data

ExtractInit ==
    /\ pc = "extract"
    /\ fin \in {TableOf(ks) : ks \in SeqsUpTo(ExtractRows, MaxRowsX)}
    /\ fout = <<>>
    /\ Idle

Extract ==
    /\ pc = "extract"
    /\ Returns("extracted",
          [x      |-> extract_table_data(PageImg, fin),
           stored |-> StoredOf(fin)])

SpecExtract == ExtractInit /\ [][Extract]_vars

\* --- classify_table ---------------------------------------------------------
MaxFrags == 2
HeaderFragments ==
    {TxMsi, TxMsiAd, TxReg, TxRegAd, TxDetalle, TxNoA, TxMeses, TxDifer, TxFecha,
     KwAdicional, Lower(KwRegulares), Lower(KwNoAMeses), <<" ">>}

RECURSIVE Flat(_)
Flat(fs) == IF fs = <<>> THEN <<>> ELSE Head(fs) \o Flat(Tail(fs))

ClassifyInit ==
    /\ pc = "classify"
    /\ fin \in {Flat(fs) : fs \in SeqsUpTo(HeaderFragments, MaxFrags)}
    /\ fout = <<>>
    /\ Idle

Classify ==
    /\ pc = "classify"
    /\ Returns("classified", classify_table(fin))

SpecClassify == ClassifyInit /\ [][Classify]_vars

\* --- detect_sign_cell -------------------------------------------------------
MaxY == 7
\* Pixels a small page may carry: a column of black ones, a second black one in a
\* row, a dark grey one, a grey one at the threshold, a black one on the border
SignPixels ==
    {<<4, y, 0>> : y \in 0..MaxY} \cup {<<5, 3, 0>>, <<5, 4, 99>>, <<3, 3, 100>>, <<0, 3, 0>>}

SignHeights == {7, 12}
SignBoxes == {<<0, 0, 2, 2>>, <<0, 0, 2, 3>>, <<0, 0, 1, 2>>, <<2, 0, 2, 2>>}

SignInputs ==
    UNION {{[page_img |-> [w |-> 10, h |-> h, ink |-> S, glyphs |-> {}], bbox |-> b] :
                S \in SUBSET {p \in SignPixels : p[2] < h}, b \in SignBoxes} :
           h \in SignHeights}

SignInit ==
    /\ pc = "detect"
    /\ fin \in SignInputs
    /\ fout = <<>>
    /\ Idle

Detect ==
    /\ pc = "detect"
    /\ Returns("detected", detect_sign_cell(fin.page_img, fin.bbox))

SpecSign == SignInit /\ [][Detect]_vars

\* --- clean_regular_dataframe, as process_pdf calls it (lines 233-244) --------
MaxRecords == 2
\* What the readers give for the Tipo and Monto cells: stripped text, or ""
RawTipos == {<<"-">>, <<"+">>, <<>>, <<"-", "-">>}
RawMontos == {TxAmount, <<"-">> \o TxAmount, <<"-", "-">>, <<"-", "$", "5">>, <<>>}

RegularRows == {<<TxDate1, TxDate2, TxOxxo, t, m>> : t \in RawTipos, m \in RawMontos}

RegularInit ==
    /\ pc = "clean"
    /\ fin \in [rows  : UNION {[1..n -> RegularRows] : n \in 1..MaxRecords},
                sheet : {"No a Meses Titular", "No a Meses Adicional"}]
    /\ fout = <<>>
    /\ Idle

CleanRegular ==
    /\ pc = "clean"
    /\ Returns("cleaned", SheetFrame(fin.sheet, fin.rows, NoneText))

SpecRegular == RegularInit /\ [][CleanRegular]_vars

\* --- clean_date ---------------------------------------------------------------
\* Cell texts made of a border artefact, a day, a month, a year and a trailing
\* artefact, as OCR reads them
DayTexts == {<<"2">>, <<"1", "7">>, <<"2", "f">>, <<"2", "/">>, <<"2", "9", "8">>, <<"f">>}
MonthTexts == {<<"-", "E", "n", "e">>, <<"-", "e", "n", "e">>, <<"-", "D", "I", "C">>, <<"-", "X", "y", "z">>, <<>>}
YearTexts == {<<"-", "2", "0", "2", "6">>, <<"-", "2", "6">>, <<>>}
LeadTexts == {<<>>, <<"[">>, <<"x", " ">>}
TrailTexts == {<<>>, <<" ", "|">>}

DateTexts ==
    {<<>>} \cup {l \o d \o m \o y \o t :
                    l \in LeadTexts, d \in DayTexts, m \in MonthTexts, y \in YearTexts, t \in TrailTexts}

DateInit ==
    /\ pc = "date"
    /\ fin \in DateTexts
    /\ fout = <<>>
    /\ Idle

CleanDate ==
    /\ pc = "date"
    /\ Returns("dated", clean_date(fin))

SpecDate == DateInit /\ [][CleanDate]_vars

\* --- crop_cell_image, ocr_cell, ocr_region -------------------------------------
\* Bounding-box coordinates in points, left of, inside and beyond a small page
CropCoords == {-2, 0, 2, 4, 12}
CropPads == {0, 4, 5}

\* A page of 40 by 30 pixels with one text printed on it
SmallPage == [w |-> 40, h |-> 30, ink |-> {}, glyphs |-> {<<12, 12, TxOne>>}]

CropInit ==
    /\ pc = "crop"
    /\ fin \in [bbox : {<<a, b, c, d>> : a \in CropCoords, b \in CropCoords,
                                          c \in CropCoords, d \in CropCoords},
                pad  : CropPads]
    /\ fout = <<>>
    /\ Idle

CropAndRead ==
    /\ pc = "crop"
    /\ Returns("cropped",
               [box    |-> CropBox(SmallPage, fin.bbox, fin.pad),
                img    |-> CropCellImage(SmallPage, fin.bbox, fin.pad),
                cell   |-> ocr_cell(SmallPage, fin.bbox),
                region |-> ocr_region(SmallPage, fin.bbox)])

SpecCrop == CropInit /\ [][CropAndRead]_vars

\* --- the header scan of extract_table_data ----------------------------------
MaxRowsH == 4
\* Title rows, a title split over two rows, a fully merged row, rows with several cells
ScanRows == {1, 4, 5, 6, 11, 13, 14, 15}

ScanInit ==
    /\ pc = "scan"
    /\ fin \in {TableOf(ks) : ks \in SeqsUpTo(ScanRows, MaxRowsH)}
    /\ fout = <<>>
    /\ Idle

Scan ==
    /\ pc = "scan"
    /\ Returns("scanned",
               [scan |-> IF fin = <<>> THEN [header_text |-> <<>>, data_start_idx |-> 0]
                         ELSE HeaderScan(PageImg, fin, 1, <<>>),
                x    |-> extract_table_data(PageImg, fin)])

SpecScan == ScanInit /\ [][Scan]_vars

(***************************************************************************)
(* Properties of process_pdf and main, checked under Spec                  *)
(***************************************************************************)
Classified(h) == h.category \in {"msi", "regular"}

\* The header class of the most recent table before the last one whose header
\* classified as msi or regular (defined when there is one)
PriorClassified ==
    hist[CHOOSE i \in 1..(Len(hist) - 1) :
            /\ Classified(hist[i])
            /\ \A j \in (i + 1)..(Len(hist) - 1) : ~Classified(hist[j])]

HasPriorClassified == \E i \in 1..(Len(hist) - 1) : Classified(hist[i])

\* C1: a table with an unclassifiable header and at least one surviving row has its
\* rows stored under the sheet of the most recent earlier table whose header
\* classified as msi or regular; with no such table its rows reach no sheet.
C1_ContinuationFollowsLastClassified ==
    (ev.outcome # "none" /\ ev.header.category = "unknown" /\ ev.rows # <<>>) =>
        IF HasPriorClassified
        THEN /\ ev.outcome = "stored"
             /\ ev.sheet = SheetName(PriorClassified.category, PriorClassified.card_type)
        ELSE /\ ev.outcome # "stored"
             /\ \A s \in SheetNames : tables_data[s] = <<>>

\* C2: every row stored under an MSI sheet has 7 columns and every row stored under
\* a No a Meses sheet has 5.
C2_RowsHaveSheetWidth ==
    \A s \in SheetNames : \A i \in 1..Len(tables_data[s]) :
        Len(tables_data[s][i]) = IF IsMsiSheet(s) THEN 7 ELSE 5

\* C3: right after the loop handled a table whose header classified as msi or
\* regular, ExtractionState is that table's (category, card_type).
C3_StateFollowsClassifiedTable ==
    (ev.outcome # "none" /\ Classified(ev.header)) =>
        /\ last_category = ev.header.category
        /\ last_card_type = ev.header.card_type

\* C4: process_pdf never raises; main exits with the fatal status exactly when no
\* row was stored under any sheet.
C4_NeverRaises ==
    /\ pc # "raised"
    /\ pc = "exit1" => \A s \in SheetNames : tables_data[s] = <<>>
    /\ pc = "exported" => \E s \in SheetNames : tables_data[s] # <<>>

\* C8: on the cells of the data rows of a table of category msi or regular, fresh or
\* inherited, the sign detector is the reader exactly on the narrow cells of a
\* regular table, and the OCR engine on every other cell.
C8_SignDetectorOnNarrowRegularOnly ==
    (ev.outcome # "none" /\ ev.category \in {"msi", "regular"}) =>
        \A call \in ev.calls :
            /\ call[1] = "sign" <=> (call[2] /\ ev.category = "regular")
            /\ call[1] = "ocr" <=> ~(call[2] /\ ev.category = "regular")

Returned == pc \in {"returned", "exit1", "exported"}

FrameData(sheet) == IF sheet \in DOMAIN result THEN result[sheet].data ELSE <<>>

\* C9: the consolidated frame holds the titular records followed by the adicional
\* ones, indexed 0..n-1, and exists exactly when one of the two is non-empty.
C9_ConsolidadoIsConcatenation ==
    Returned =>
        /\ "No a Meses Consolidado" \in DOMAIN result
              <=> (FrameData("No a Meses Titular") # <<>> \/ FrameData("No a Meses Adicional") # <<>>)
        /\ "No a Meses Consolidado" \in DOMAIN result =>
              /\ result["No a Meses Consolidado"].data
                    = FrameData("No a Meses Titular") \o FrameData("No a Meses Adicional")
              /\ Len(result["No a Meses Consolidado"].data)
                    = Len(FrameData("No a Meses Titular")) + Len(FrameData("No a Meses Adicional"))
              /\ \A i \in 1..Len(result["No a Meses Consolidado"].data) :
                    result["No a Meses Consolidado"].index[i] = i - 1
              /\ Len(result["No a Meses Consolidado"].index)
                    = Len(result["No a Meses Consolidado"].data)

\* C9 witness: process_pdf returned both regular frames and their concatenation
C9_Witness ==
    /\ Returned
    /\ FrameData("No a Meses Titular") # <<>>
    /\ FrameData("No a Meses Adicional") # <<>>
    /\ Len(FrameData("No a Meses Consolidado")) >= 2

(***************************************************************************)
(* Properties of one loop iteration, checked under SpecRoute               *)
(***************************************************************************)
OwnSheet(r) == SheetName(r.ev.header.category, r.ev.header.card_type)

\* C7: a table whose header classifies as msi or regular is routed the same way from
\* any two ExtractionStates, to the sheet of its own (category, card_type) when it
\* has rows, and ExtractionState is read only for a table whose header is unknown.
C7_FreshOrInheritedNeverBoth ==
    pc = "routed" =>
        /\ Classified(fout[1].ev.header) =>
              /\ fout[1].ev.sheet = fout[2].ev.sheet
              /\ fout[1].ev.outcome = fout[2].ev.outcome
              /\ fout[1].tables_data = fout[2].tables_data
              /\ fout[1].ev.rows # <<>> =>
                    /\ fout[1].ev.outcome = "stored"
                    /\ fout[1].ev.sheet = OwnSheet(fout[1])
                    /\ fout[1].tables_data[OwnSheet(fout[1])] = fout[1].ev.rows
                    /\ \A s \in SheetNames \ {OwnSheet(fout[1])} : fout[1].tables_data[s] = <<>>
        /\ \A i \in {1, 2} : fout[i].ev.read_state => fout[i].ev.header.category = "unknown"

\* C7 witness: a regular table with rows was routed from an msi state and from the
\* initial state
C7_Witness ==
    /\ pc = "routed"
    /\ fin.a.lc = "msi" /\ fin.a.lct = "adicional"
    /\ fin.b.lc = None
    /\ fout[1].ev.header.category = "regular"
    /\ fout[1].ev.rows # <<>>
    /\ fout[1].ev.sheet = "No a Meses Titular"

(***************************************************************************)
(* Properties of extract_table_data, checked under SpecExtract             *)
(***************************************************************************)
\* The first row (1-based) with more than one non-null cell, past the end if none
FirstDataRow(table) ==
    Least({i \in 1..Len(table) : Cardinality({c \in 1..Len(table[i]) : table[i][c] # NoCell}) > 1}
          \cup {Len(table) + 1})

KeywordsIn(row_data) ==
    {k \in 1..Len(header_keywords) :
        \E f \in 1..Len(row_data) : Contains(Lower(row_data[f]), header_keywords[k])}

HasTotal(row_data) ==
    \E f \in 1..Len(row_data) : Contains(Lower(row_data[f]), <<"t", "o", "t", "a", "l">>)

ValidRow(cells, row_data) ==
    /\ Cardinality({c \in 1..Len(cells) : cells[c] # NoCell}) >= 3
    /\ Cardinality(KeywordsIn(row_data)) < 2
    /\ ~HasTotal(row_data)
    /\ \E f \in 1..Len(row_data) : row_data[f] # <<>>

ValidIndices(table, is_msi) ==
    SelectSeq([i \in 1..Len(table) |-> i],
              LAMBDA i : i >= FirstDataRow(table)
                         /\ ValidRow(table[i], RowData(PageImg, table[i], is_msi)))

ExpectedRows(table, is_msi, idx) ==
    [j \in 1..Len(idx) |->
        Normalize(RowData(PageImg, table[idx[j]], is_msi), IF is_msi THEN 7 ELSE 5)]

\* C5: for a classified table extract_table_data returns, in order, exactly the rows
\* from the data start on with at least 3 non-null cells that are neither header
\* rows nor total rows nor all-empty; process_pdf stores them, and nothing else,
\* under the table's sheet.
C5_EmitsExactlyTheValidRows ==
    (pc = "extracted" /\ fout.x.category \in {"msi", "regular"}) =>
        /\ fout.x.data_rows
              = ExpectedRows(fin, fout.x.category = "msi", ValidIndices(fin, fout.x.category = "msi"))
        /\ \A i \in 1..Len(fout.x.data_rows) :
              ~is_header_row(fout.x.data_rows[i]) /\ ~is_total_row(fout.x.data_rows[i])
        /\ \A s \in SheetNames :
              fout.stored[s] = IF s = SheetName(fout.x.category, fout.x.card_type)
                               THEN fout.x.data_rows ELSE <<>>

\* C5 witness: an msi titular table with a column-header row, a total row and valid
\* data rows gave its valid rows only
C5_Witness ==
    /\ pc = "extracted"
    /\ fout.x.category = "msi" /\ fout.x.card_type = "titular"
    /\ \E i \in 1..Len(fin) : fin[i] = Cells(10)
    /\ \E i \in 1..Len(fin) : fin[i] = Cells(9)
    /\ Len(fout.x.data_rows) = 1
    /\ Len(fout.stored["MSI Titular"]) = 1

(***************************************************************************)
(* Properties of classify_table, checked under SpecClassify                *)
(***************************************************************************)
\* text contains marker, letter case ignored
HasMarker(text, marker) ==
    \E i \in 1..(Len(text) - Len(marker) + 1) :
        \A j \in 1..Len(marker) : LowerChar(text[i + j - 1]) = LowerChar(marker[j])

\* C6: classify_table gives msi when the text holds "MESES SIN INTERESES" or
\* "DIFERIDOS", else regular when it holds "NO A MESES" or "REGULARES", else unknown,
\* and adicional when it holds "ADICIONAL", else titular, letter case ignored.
C6_ClassifiesByMarkers ==
    pc = "classified" =>
        /\ fout.category =
              IF HasMarker(fin, KwMesesSinIntereses) \/ HasMarker(fin, KwDiferidos) THEN "msi"
              ELSE IF HasMarker(fin, KwNoAMeses) \/ HasMarker(fin, KwRegulares) THEN "regular"
              ELSE "unknown"
        /\ fout.card_type = IF HasMarker(fin, KwAdicional) THEN "adicional" ELSE "titular"

\* C6 witness: a mixed-case text with an msi marker and a regular marker is msi
C6_Witness ==
    /\ pc = "classified"
    /\ fin # Upper(fin)
    /\ HasMarker(fin, KwMesesSinIntereses)
    /\ HasMarker(fin, KwRegulares)
    /\ fout = [category |-> "msi", card_type |-> "adicional"]

(***************************************************************************)
(* Properties of detect_sign_cell, checked under SpecSign                  *)
(***************************************************************************)
\* The dark pixels of the inner 60% of a crop
InnerDark(c) ==
    {t \in c.ink : /\ t[3] < 100
                   /\ t[1] >= c.w \div 5 /\ t[1] < c.w - (c.w \div 5)
                   /\ t[2] >= c.h \div 5 /\ t[2] < c.h - (c.h \div 5)}

InnerHeight(c) == c.h - 2 * (c.h \div 5)
InnerWidth(c) == c.w - 2 * (c.w \div 5)

IsMinus(c) ==
    /\ c # NoImage
    /\ c.w >= 6 /\ c.h >= 6
    /\ InnerWidth(c) >= 3 /\ InnerHeight(c) >= 3
    /\ Cardinality(InnerDark(c)) >= 2
    /\ 5 * Cardinality({t[2] : t \in InnerDark(c)}) < 2 * InnerHeight(c)

\* C10: detect_sign_cell returns "-" exactly when the crop exists, is at least 6px
\* wide and high, its inner 60% is at least 3px both ways and holds at least 2
\* pixels darker than 100, in fewer than 0.40 of its rows; otherwise "+".
C10_MinusIffNarrowDarkBand ==
    pc = "detected" =>
        /\ fout = <<"-">> <=> IsMinus(CropCellImage(fin.page_img, fin.bbox, 0))
        /\ fout # <<"-">> => fout = <<"+">>

\* C10 witness: a crop with two dark pixels in one inner row, and a grey one at the
\* threshold in another, read as "-"
C10_Witness ==
    /\ pc = "detected"
    /\ fout = <<"-">>
    /\ <<3, 3, 100>> \in fin.page_img.ink
    /\ Cardinality(InnerDark(CropCellImage(fin.page_img, fin.bbox, 0))) = 2

(***************************************************************************)
(* Properties of clean_regular_dataframe, checked under SpecRegular        *)
(***************************************************************************)
\* The column of a frame named name
Column(df, name) == CHOOSE c \in 1..Len(df.columns) : df.columns[c] = name

\* C11: in every record of a regular frame Tipo is "Abono" when the raw Tipo is "-"
\* and "Cargo" otherwise, Monto does not start with a minus sign, Tipo Tarjeta is the
\* sheet's card type capitalized, and De quien and Comentario are empty.
C11_RegularRecordFields ==
    pc = "cleaned" =>
        /\ Len(fout.data) = Len(fin.rows)
        /\ \A r \in 1..Len(fout.data) :
              /\ fout.data[r][Column(fout, "Tipo")]
                    = IF fin.rows[r][4] = <<"-">> THEN <<"A", "b", "o", "n", "o">>
                      ELSE <<"C", "a", "r", "g", "o">>
              /\ fout.data[r][Column(fout, "Monto")] # <<>>
                    => fout.data[r][Column(fout, "Monto")][1] # "-"
              /\ fout.data[r][Column(fout, "Tipo Tarjeta")]
                    = IF fin.sheet = "No a Meses Adicional"
                      THEN <<"A", "d", "i", "c", "i", "o", "n", "a", "l">>
                      ELSE <<"T", "i", "t", "u", "l", "a", "r">>
              /\ fout.data[r][Column(fout, "De quien")] = <<>>
              /\ fout.data[r][Column(fout, "Comentario")] = <<>>

\* C11 witness: an adicional frame with a "-" record whose raw amount began with a
\* minus sign and a record with an empty raw Tipo
C11_Witness ==
    /\ pc = "cleaned"
    /\ fin.sheet = "No a Meses Adicional"
    /\ Len(fin.rows) = 2
    /\ fin.rows[1][4] = <<"-">> /\ fin.rows[1][5] = <<"-">> \o TxAmount
    /\ fin.rows[2][4] = <<>>
    /\ fout.data[1][Column(fout, "Tipo")] = <<"A", "b", "o", "n", "o">>
    /\ fout.data[1][Column(fout, "Monto")] = <<"1", "5", "0", "0", ".", "0", "0">>
    /\ fout.data[2][Column(fout, "Tipo")] = <<"C", "a", "r", "g", "o">>

(***************************************************************************)
(* Properties of clean_date, checked under SpecDate                        *)
(***************************************************************************)
\* s holds one or two digits, a hyphen and a month abbreviation, any letter case
HoldsDayMonth(s) ==
    \E i \in 1..Len(s) :
        \E n \in {1, 2} :
            /\ i + n + 3 <= Len(s)
            /\ \A k \in 0..(n - 1) : s[i + k] \in Digits
            /\ s[i + n] = "-"
            /\ Lower(SubSeq(s, i + n + 1, i + n + 3)) \in Months

\* d is two digits, a hyphen and a capitalized month abbreviation, then nothing or a
\* hyphen and four digits
IsCleanDate(d) ==
    /\ Len(d) \in {6, 11}
    /\ d[1] \in Digits /\ d[2] \in Digits /\ d[3] = "-"
    /\ Lower(SubSeq(d, 4, 6)) \in Months
    /\ SubSeq(d, 4, 6) = <<UpperChar(d[4]), LowerChar(d[5]), LowerChar(d[6])>>
    /\ Len(d) = 11 => d[7] = "-" /\ \A k \in 8..11 : d[k] \in Digits

\* C12: when clean_date finds a date, with or without a 4-digit year, the result has
\* a two-digit day and a capitalized month; when it finds none, the result is the
\* sanitized input.
C12_DateIsPaddedAndCapitalized ==
    pc = "dated" =>
        IF HoldsDayMonth(fout)
        THEN IsCleanDate(fout)
        ELSE fout = (IF fin = <<>> THEN <<>> ELSE _sanitize_ocr(fin))

(***************************************************************************)
(* Properties of crop_cell_image, checked under SpecCrop                   *)
(***************************************************************************)
InsidePage(b, page_img) ==
    /\ 0 <= b.x0 /\ b.x0 < b.x1 /\ b.x1 <= page_img.w
    /\ 0 <= b.top /\ b.top < b.bottom /\ b.bottom <= page_img.h

\* The pixel region of bbox grown by pad, before any clamp
GrownBox(bbox, pad) ==
    [x0     |-> ScalePx(bbox[1]) - pad,
     top    |-> ScalePx(bbox[2]) - pad,
     x1     |-> ScalePx(bbox[3]) + pad,
     bottom |-> ScalePx(bbox[4]) + pad]

\* C13: whenever crop_cell_image crops, the region lies inside the page with
\* x0 < x1 and top < bottom and the crop has the region's size; when the clamped
\* region is empty there is no crop, and ocr_cell and ocr_region return "" when
\* theirs is.
C13_CropStaysInsidePage ==
    pc = "cropped" =>
        /\ fout.img # NoImage
              => /\ InsidePage(fout.box, SmallPage)
                 /\ fout.img.w = fout.box.x1 - fout.box.x0
                 /\ fout.img.h = fout.box.bottom - fout.box.top
        /\ fout.img = NoImage <=> (fout.box.x1 <= fout.box.x0 \/ fout.box.bottom <= fout.box.top)
        /\ CropCellImage(SmallPage, fin.bbox, 5) = NoImage => fout.cell = <<>>
        /\ CropCellImage(SmallPage, fin.bbox, 4) = NoImage => fout.region = <<>>

\* C13 witness: a box that reaches beyond the page on the right and at the bottom,
\* and with its padding beyond the left and the top, was cropped to the page and read
C13_Witness ==
    /\ pc = "cropped"
    /\ fin.pad = 5
    /\ GrownBox(fin.bbox, fin.pad).x0 < 0 /\ GrownBox(fin.bbox, fin.pad).top < 0
    /\ GrownBox(fin.bbox, fin.pad).x1 > SmallPage.w /\ GrownBox(fin.bbox, fin.pad).bottom > SmallPage.h
    /\ fout.box = [x0 |-> 0, top |-> 0, x1 |-> 40, bottom |-> 30]
    /\ fout.img # NoImage
    /\ fout.cell = TxOne

\* C13 witness of the other case: a degenerate box, no crop, nothing read
C13_NoCrop ==
    /\ pc = "cropped"
    /\ fin.bbox[3] < fin.bbox[1]
    /\ fout.img = NoImage
    /\ fout.cell = <<>> /\ fout.region = <<>>

(***************************************************************************)
(* Properties of the header scan, checked under SpecScan                   *)
(***************************************************************************)
NonNullCells(row) == {c \in 1..Len(row) : row[c] # NoCell}

\* The text of the title rows among the first n rows: a space and the region text of
\* the only cell of every row that has exactly one
TitleText(table, n) ==
    Flat([i \in 1..n |->
            IF Cardinality(NonNullCells(table[i])) = 1
            THEN <<" ">> \o ocr_region(PageImg, table[i][CHOOSE c \in NonNullCells(table[i]) : TRUE])
            ELSE <<>>])

\* C14: the data-start index is the index of the first row with more than one
\* non-null cell, or the row count; the header text comes from the rows before it
\* only, and the table's class is that of this text whatever the rows from the
\* data start on hold.
C14_HeaderScanStopsAtFirstDataRow ==
    (pc = "scanned" /\ fin # <<>>) =>
        /\ fout.scan.data_start_idx = FirstDataRow(fin) - 1
        /\ \A i \in 1..fout.scan.data_start_idx : Cardinality(NonNullCells(fin[i])) <= 1
        /\ fout.scan.header_text = TitleText(fin, FirstDataRow(fin) - 1)
        /\ LET cls == classify_table(TitleText(fin, FirstDataRow(fin) - 1)) IN
           IF cls.category = "unknown"
           THEN fout.x.category = "continuation"
           ELSE fout.x.category = cls.category /\ fout.x.card_type = cls.card_type

\* C14 witness: a title split over two rows, a data row, then an msi title row that
\* the scan does not reach
C14_Witness ==
    /\ pc = "scanned"
    /\ fin = TableOf(<<13, 14, 6, 1>>)
    /\ fout.scan.data_start_idx = 2
    /\ fout.scan.header_text = <<" ">> \o TxNoA \o <<" ">> \o TxMeses
    /\ fout.x.category = "regular"
    /\ Len(fout.x.data_rows) = 1

(***************************************************************************)
(* The frame of one loop iteration of process_pdf, checked under Spec      *)
(***************************************************************************)
\* What handling one table does to the four sheets: the table's surviving rows go,
\* in their order, after the rows of one sheet, and every other sheet keeps its rows;
\* a skipped table changes no sheet and not ExtractionState
HandledFrame ==
    /\ ev'.outcome = "stored" =>
          /\ ev'.sheet \in SheetNames
          /\ ev'.rows # <<>>
          /\ tables_data'[ev'.sheet] = tables_data[ev'.sheet] \o ev'.rows
          /\ \A s \in SheetNames \ {ev'.sheet} : tables_data'[s] = tables_data[s]
    /\ ev'.outcome # "stored" =>
          /\ tables_data' = tables_data
          /\ last_category' = last_category
          /\ last_card_type' = last_card_type

\* C15: every step of process_pdf keeps the rows already stored, in their order, as a
\* prefix of each sheet; handling a table adds its surviving rows once, in order, at
\* the end of exactly one sheet, or, when the table is skipped, changes no sheet and
\* not ExtractionState.
C15_StoredRowsOnlyGrow ==
    [][ /\ nt' = nt + 1 => HandledFrame
        /\ nt' = nt => tables_data' = tables_data ]_vars

\* C15 witness: after three tables one sheet holds the rows of two of them, one
\* after the other, and the third table was skipped
C15_Witness ==
    /\ nt = 3
    /\ Len(hist) = 3
    /\ ev.outcome = "no data"
    /\ Len(tables_data["No a Meses Titular"]) = 2
    /\ tables_data["No a Meses Titular"][1] # tables_data["No a Meses Titular"][2]
    /\ last_category = "regular"
====
